---- MODULE Spec2Model ----
(***************************************************************************)
(* Model of the breathUnity scripts:                                       *)
(*   - python/ios_to_unity_bridge.py : iOSToUnityBridge (cache, two        *)
(*     threads, two sockets)                                               *)
(*   - python/enhanced_belt_analysis.py : BreathingAnalyzer and main()     *)
(*   - python/belt_test.py, belt_test.py : the sampling/forward scripts    *)
(*                                                                         *)
(* Numbers that the code handles as floats with one decimal (force,        *)
(* respiration rate, the 0.1 trend threshold) are kept as integers in      *)
(* tenths, so 0.1 is 1 and 1.0 is 10.                                      *)
(***************************************************************************)
EXTENDS Integers, Sequences, FiniteSets, TLC

VARIABLES
    \* ---- iOSToUnityBridge (ios_to_unity_bridge.py) ----
    ios_socket,            \* "none" | "open" | "closed"
    unity_socket,          \* "none" | "open" | "closed"
    running,               \* self.running
    last_hrv,              \* self.last_hrv
    last_breathing_phase,  \* self.last_breathing_phase
    last_phase_duration,   \* self.last_phase_duration
    ios_data,              \* argument of the last convert_to_unity_format call
    unity_data,            \* its return value (NoData before any call / on raise)
    hrv_seen,              \* history: the hrv field of every message converted
    prev_cache,            \* history: the three cached values before the last call
    mpc,                   \* position of the main thread in start()/stop()
    rpc,                   \* position of the receive thread in receive_from_ios()
    bridge_log,            \* the last error/stop line the bridge printed
    last_exc,              \* history: the exception receive_from_ios caught last
    n_recv,                \* history: datagrams recvfrom has returned
    n_fwd,                 \* history: datagrams handed to Unity by sendto
    ios_closes,            \* history: close() calls on ios_socket
    unity_closes,          \* history: close() calls on unity_socket
    closed_ops,            \* history: socket calls issued on a closed socket
    rx_kind,               \* history: what the last datagram received was
    \* ---- BreathingAnalyzer (enhanced_belt_analysis.py) ----
    window_size,           \* self.window_size
    force_history,         \* deque(maxlen=window_size)
    resp_rate_history,     \* deque(maxlen=window_size)
    timestamps,            \* deque(maxlen=window_size)
    breathing_depth,       \* self.breathing_depth
    breathing_regularity,  \* self.breathing_regularity
    breathing_intensity,   \* self.breathing_intensity
    derived,               \* the mapping get_derived_metrics returned last
    n_added,               \* history: number of add_sample calls so far
    appended,              \* history: every sample appended (SpecWindow only)
    force_seen,            \* history: the set of all force values ever appended
    \* ---- sampling/forward scripts (main() / module level) ----
    script,                \* which script runs: "enhanced" | "belt_sensors" | "belt"
    lpc,                   \* position of the script
    dev_open,              \* g.open() has succeeded
    dev_started,           \* g.start() has been called
    dev_stops,             \* number of g.stop() calls
    dev_closes,            \* number of g.close() calls
    sock,                  \* the outbound UDP socket: "open" | "closed"
    available_sensors,     \* channel list in use (belt_sensors falls back to [1, 2])
    vals,                  \* what g.read() returned last
    payload,               \* the dict built for this tick
    udp_out,               \* the last datagram handed to the network
    n_read,                \* history: readings delivered by g.read()
    n_sent,                \* history: datagrams sent
    send_errors,           \* history: sendto calls that raised
    loop_log,              \* the last line the script printed about an error/stop
    uncaught,              \* an exception is propagating out of the script
    setup_failed           \* history: the device setup calls that raised

bridge_cache == <<last_hrv, last_breathing_phase, last_phase_duration>>
bridge_vars == <<ios_socket, unity_socket, running, last_hrv, last_breathing_phase,
                 last_phase_duration, ios_data, unity_data, hrv_seen, prev_cache,
                 mpc, rpc, bridge_log, last_exc, n_recv, n_fwd, ios_closes,
                 unity_closes, closed_ops, rx_kind>>
thread_vars == <<mpc, rpc, bridge_log, last_exc, n_recv, n_fwd, ios_closes,
                 unity_closes, closed_ops, rx_kind>>
analyzer_vars == <<window_size, force_history, resp_rate_history, timestamps,
                   breathing_depth, breathing_regularity, breathing_intensity,
                   derived, n_added, appended, force_seen>>
loop_vars == <<script, lpc, dev_open, dev_started, dev_stops, dev_closes, sock,
               available_sensors, vals, payload, udp_out, n_read, n_sent,
               send_errors, loop_log, uncaught, setup_failed>>
vars == <<bridge_vars, analyzer_vars, loop_vars>>

(***************************************************************************)
(* JSON values.  A value is a number, a string or absent (key not in the   *)
(* object).  All three shapes carry the same fields so that any two        *)
(* values can be compared.                                                 *)
(***************************************************************************)
Num(x) == [t |-> "num", n |-> x, s |-> ""]
Str(x) == [t |-> "str", n |-> 0, s |-> x]
Absent == [t |-> "absent", n |-> 0, s |-> ""]

\* Python truth value of a JSON value (`if ios_data["breathing_phase"]:`).
Truthy(v) == (v.t = "str" /\ v.s # "") \/ (v.t = "num" /\ v.n # 0)

(***************************************************************************)
(* Parsed iOS messages (the value json.loads returns).  An object carries  *)
(* its optional keys; an array carries the set of its string elements      *)
(* (`"hrv" in ios_data` is an element test on a list).                     *)
(***************************************************************************)
HrvInputs == {Absent, Num(0), Num(-3), Num(45), Num(60), Str("high")}
PhaseInputs == {Absent, Str(""), Str("inhale")}
DurationInputs == {Absent, Num(0), Num(2)}
RateStampInputs == {<<Absent, Absent>>, <<Num(75), Num(100)>>}

Object(h, p, d, rt) ==
    [json |-> "object", hrv |-> h, breathing_phase |-> p, phase_duration |-> d,
     heart_rate |-> rt[1], timestamp |-> rt[2], elems |-> {}]
Array(es) ==
    [json |-> "array", hrv |-> Absent, breathing_phase |-> Absent,
     phase_duration |-> Absent, heart_rate |-> Absent, timestamp |-> Absent,
     elems |-> es]

JsonObjects == {Object(h, p, d, rt) : h \in HrvInputs, p \in PhaseInputs,
                                      d \in DurationInputs, rt \in RateStampInputs}
JsonArrays == {Array({}), Array({"phase_duration"})}
JsonValues == JsonObjects \cup JsonArrays

NoMessage == Array({"<none>"})
NoData == <<>>

\* `key in ios_data`
Has(d, k) == IF d.json = "object" THEN d[k].t # "absent" ELSE k \in d.elems
\* `ios_data[key]` raises TypeError on a list (indices must be integers).
SubscriptRaises(d) == d.json # "object"
\* `ios_data.get(key, default)`; a list has no .get (AttributeError).
Get(d, k, default) == IF d[k].t = "absent" THEN default ELSE d[k]
\* time.time(): the wall clock at the call.
time_time == Num(1700)

(***************************************************************************)
(* convert_to_unity_format, statement by statement.  Each step takes and   *)
(* returns [raised, hrv, phase, duration]: the cache as updated so far     *)
(* and whether an exception has left the function.                         *)
(***************************************************************************)
\* Variant: the guard written `>= 0`, so a zero hrv overwrites the cache.
UpdateHrv_ZeroOverwrites(c, d) ==
    IF ~Has(d, "hrv") THEN c
    ELSE IF SubscriptRaises(d) \/ d.hrv.t # "num" THEN [c EXCEPT !.raised = TRUE]
    ELSE IF d.hrv.n >= 0 THEN [c EXCEPT !.hrv = d.hrv]
    ELSE c

\* line 87-88: if "hrv" in ios_data and ios_data["hrv"] > 0: self.last_hrv = ...
\* (str > int raises TypeError)
UpdateHrv(c, d) ==
    IF ~Has(d, "hrv") THEN c
    ELSE IF SubscriptRaises(d) \/ d.hrv.t # "num" THEN [c EXCEPT !.raised = TRUE]
    ELSE IF d.hrv.n > 0 THEN [c EXCEPT !.hrv = d.hrv]
    ELSE c

\* line 90-91
UpdateBreathingPhase(c, d) ==
    IF ~Has(d, "breathing_phase") THEN c
    ELSE IF SubscriptRaises(d) THEN [c EXCEPT !.raised = TRUE]
    ELSE IF Truthy(d.breathing_phase) THEN [c EXCEPT !.phase = d.breathing_phase]
    ELSE c

\* line 93-94
UpdatePhaseDuration(c, d) ==
    IF ~Has(d, "phase_duration") THEN c
    ELSE IF SubscriptRaises(d) THEN [c EXCEPT !.raised = TRUE]
    ELSE [c EXCEPT !.duration = d.phase_duration]

\* json.dumps of a flat dict: the JSON object's members (order carries no meaning).
json_dumps(d) == {<<k, d[k]>> : k \in DOMAIN d}
JsonKeys(text) == {m[1] : m \in text}

\* Variant: the force placeholder filled from the cache (a copy-paste slip).
BuildUnityData_ForceFromCache(c, d) ==
    [heart_rate_bpm  |-> Get(d, "heart_rate", Num(0)),
     hrv             |-> c.hrv,
     breathing_phase |-> c.phase,
     phase_duration  |-> c.duration,
     force           |-> c.duration,
     resp_rate_bpm   |-> Num(0),
     steps           |-> Num(0),
     step_rate_spm   |-> Num(0),
     t               |-> Get(d, "timestamp", time_time)]

\* line 96-106: the dict literal
BuildUnityData(c, d) ==
    [heart_rate_bpm  |-> Get(d, "heart_rate", Num(0)),
     hrv             |-> c.hrv,
     breathing_phase |-> c.phase,
     phase_duration  |-> c.duration,
     force           |-> Num(0),
     resp_rate_bpm   |-> Num(0),
     steps           |-> Num(0),
     step_rate_spm   |-> Num(0),
     t               |-> Get(d, "timestamp", time_time)]

\* Variant: phase_duration is cached before hrv is examined, so a message the
\* hrv comparison rejects has already changed the cache.
convert_to_unity_format_DurationFirst(hrv, phase, duration, d) ==
    LET c0 == [raised |-> FALSE, hrv |-> hrv, phase |-> phase, duration |-> duration]
        c1 == UpdatePhaseDuration(c0, d)
        c2 == IF c1.raised THEN c1 ELSE UpdateHrv(c1, d)
        c3 == IF c2.raised THEN c2 ELSE UpdateBreathingPhase(c2, d)
        c4 == IF ~c3.raised /\ d.json # "object" THEN [c3 EXCEPT !.raised = TRUE] ELSE c3
    IN  [raised |-> c4.raised, hrv |-> c4.hrv, phase |-> c4.phase,
         duration |-> c4.duration,
         data |-> IF c4.raised THEN NoData ELSE BuildUnityData(c4, d)]

\* The whole method: [raised, hrv, phase, duration, data].
convert_to_unity_format(hrv, phase, duration, d) ==
    LET c0 == [raised |-> FALSE, hrv |-> hrv, phase |-> phase, duration |-> duration]
        c1 == UpdateHrv(c0, d)
        c2 == IF c1.raised THEN c1 ELSE UpdateBreathingPhase(c1, d)
        c3 == IF c2.raised THEN c2 ELSE UpdatePhaseDuration(c2, d)
        \* ios_data.get on a list raises AttributeError
        c4 == IF ~c3.raised /\ d.json # "object" THEN [c3 EXCEPT !.raised = TRUE] ELSE c3
    IN  [raised |-> c4.raised, hrv |-> c4.hrv, phase |-> c4.phase,
         duration |-> c4.duration,
         data |-> IF c4.raised THEN NoData ELSE BuildUnityData(c4, d)]


\* iOSToUnityBridge.__init__
BridgeInit ==
    /\ ios_socket = "none"
    /\ unity_socket = "none"
    /\ running = FALSE
    /\ last_hrv = Num(0)
    /\ last_breathing_phase = Str("")
    /\ last_phase_duration = Num(0)
    /\ ios_data = NoMessage
    /\ unity_data = NoData
    /\ hrv_seen = <<>>
    /\ prev_cache = <<Num(0), Str(""), Num(0)>>
    /\ mpc = "create_ios"
    /\ rpc = "unstarted"
    /\ bridge_log = "none"
    /\ last_exc = "none"
    /\ n_recv = 0
    /\ n_fwd = 0
    /\ ios_closes = 0
    /\ unity_closes = 0
    /\ closed_ops = {}
    /\ rx_kind = "none"

(***************************************************************************)
(* BreathingAnalyzer.  Signal values are in tenths (1.0 is 10).            *)
(***************************************************************************)
RECURSIVE SeqSum(_), SeqMax(_), SeqMin(_)
SeqSum(q) == IF q = <<>> THEN 0 ELSE q[1] + SeqSum(Tail(q))
SeqMax(q) == IF Len(q) = 1 THEN q[1]
             ELSE LET m == SeqMax(Tail(q)) IN IF q[1] > m THEN q[1] ELSE m
SeqMin(q) == IF Len(q) = 1 THEN q[1]
             ELSE LET m == SeqMin(Tail(q)) IN IF q[1] < m THEN q[1] ELSE m
Abs(x) == IF x < 0 THEN -x ELSE x

\* A quotient num/den kept exact (statistics.mean, statistics.stdev squared).
Ratio(num, den) == [num |-> num, den |-> den]
Zero == Ratio(0, 1)

DefaultWindow == 50     \* __init__(self, window_size=50)
DepthMinSamples == 10   \* if len(self.force_history) < 10: return
RegularityMinSamples == 10
IntensityMinSamples == 5
TrendSpan == 5          \* if len(data) < 5 / list(data)[-5:]
TrendThreshold == 1     \* 0.1, in tenths

\* Variant: a full deque refuses the new value instead of evicting the oldest.
DequeAppend_KeepsOldest(q, x, maxlen) ==
    IF maxlen = 0 THEN <<>>
    ELSE IF Len(q) >= maxlen THEN q
    ELSE Append(q, x)

\* collections.deque(maxlen=...).append
DequeAppend(q, x, maxlen) ==
    IF maxlen = 0 THEN <<>>
    ELSE IF Len(q) >= maxlen THEN Append(Tail(q), x)
    ELSE Append(q, x)

\* Variant: the range only ever grows, so it follows the whole history.
UpdateBreathingDepth_NeverShrinks(depth, fh) ==
    IF Len(fh) < DepthMinSamples THEN depth
    ELSE IF SeqMax(fh) - SeqMin(fh) > depth THEN SeqMax(fh) - SeqMin(fh) ELSE depth

\* _update_breathing_depth: the new value of self.breathing_depth
UpdateBreathingDepth(depth, fh) ==
    IF Len(fh) < DepthMinSamples THEN depth
    ELSE SeqMax(fh) - SeqMin(fh)

\* _update_breathing_regularity.  The stored value stands for
\* max(0, 1 - sqrt(variance)/10) with the sample variance kept as a quotient;
\* statistics.stdev raises on fewer than two points, which sets 0.
UpdateBreathingRegularity(reg, rh) ==
    IF Len(rh) < RegularityMinSamples THEN reg
    ELSE IF Len(rh) < 2 THEN [variance |-> Zero, failed |-> TRUE]
    ELSE LET n == Len(rh)
             sq == SeqSum([i \in 1..n |-> rh[i] * rh[i]])
         IN  [variance |-> Ratio(n * sq - SeqSum(rh) * SeqSum(rh), n * (n - 1)),
              failed |-> FALSE]

\* _update_breathing_intensity: mean of |f|
UpdateBreathingIntensity(int, fh) ==
    IF Len(fh) < IntensityMinSamples THEN int
    ELSE Ratio(SeqSum([i \in 1..Len(fh) |-> Abs(fh[i])]), Len(fh))

\* Variant: the comparisons written >= and <=, so a step of exactly 0.1 counts.
CalculateTrend_Inclusive(data) ==
    IF Len(data) < TrendSpan THEN 0
    ELSE LET recent == SubSeq(data, Len(data) - TrendSpan + 1, Len(data))
         IN  IF recent[TrendSpan] >= recent[1] + TrendThreshold THEN 1
             ELSE IF recent[TrendSpan] <= recent[1] - TrendThreshold THEN -1
             ELSE 0

\* _calculate_trend
CalculateTrend(data) ==
    IF Len(data) < TrendSpan THEN 0
    ELSE LET recent == SubSeq(data, Len(data) - TrendSpan + 1, Len(data))
         IN  IF recent[TrendSpan] > recent[1] + TrendThreshold THEN 1
             ELSE IF recent[TrendSpan] < recent[1] - TrendThreshold THEN -1
             ELSE 0

\* get_derived_metrics on the given analyzer state; `now` is time.time().
get_derived_metrics(depth, reg, int, fh, rh, now) ==
    [breathing_depth      |-> depth,
     breathing_regularity |-> reg,
     breathing_intensity  |-> int,
     session_duration     |-> now,
     avg_resp_rate        |-> IF rh # <<>> THEN Ratio(SeqSum(rh), Len(rh)) ELSE Zero,
     force_trend          |-> CalculateTrend(fh),
     resp_rate_trend      |-> CalculateTrend(rh)]

NoRegularity == [variance |-> Zero, failed |-> TRUE]
NoMetrics == <<>>

\* BreathingAnalyzer.__init__(window_size)
AnalyzerInit(w) ==
    /\ window_size = w
    /\ force_history = <<>>
    /\ resp_rate_history = <<>>
    /\ timestamps = <<>>
    /\ breathing_depth = 0
    /\ breathing_regularity = NoRegularity
    /\ breathing_intensity = Zero
    /\ derived = NoMetrics
    /\ n_added = 0
    /\ appended = <<>>
    /\ force_seen = {}

AnalyzerIdle == AnalyzerInit(DefaultWindow)

\* add_sample(force, resp_rate, timestamp) followed by get_derived_metrics(),
\* as main() calls them on every tick; the clock advances one unit per tick
\* and session_start is 0.
AddSample(force, resp_rate, timestamp) ==
    LET fh == DequeAppend(force_history, force, window_size)
        rh == DequeAppend(resp_rate_history, resp_rate, window_size)
        depth == UpdateBreathingDepth(breathing_depth, fh)
        reg == UpdateBreathingRegularity(breathing_regularity, rh)
        int == UpdateBreathingIntensity(breathing_intensity, fh)
    IN  /\ force_history' = fh
        /\ resp_rate_history' = rh
        /\ timestamps' = DequeAppend(timestamps, timestamp, window_size)
        /\ breathing_depth' = depth
        /\ breathing_regularity' = reg
        /\ breathing_intensity' = int
        /\ derived' = get_derived_metrics(depth, reg, int, fh, rh, timestamp)
        /\ n_added' = n_added + 1
        /\ force_seen' = force_seen \cup {force}
        /\ UNCHANGED window_size

\* Sample values <<force, resp_rate>> the device may deliver.
Samples == {<<10, 10>>, <<11, 20>>, <<-20, 11>>}

(***************************************************************************)
(* The sampling/forward scripts:                                           *)
(*   "enhanced"     python/enhanced_belt_analysis.py  main()               *)
(*   "belt_sensors" python/belt_test.py               (module level)       *)
(*   "belt"         belt_test.py                      (module level)       *)
(* The device g is the vendor SDK: each call either succeeds or raises.    *)
(***************************************************************************)
Scripts == {"enhanced", "belt_sensors", "belt"}
PyNone == [t |-> "none", n |-> 0, s |-> ""]
NoReading == <<>>
NoPayload == <<>>
NoDatagram == {}

\* Reading vectors g.read() may return (values in tenths; a channel may be None).
Readings == {<<Num(10), Num(10)>>, <<PyNone, Num(20)>>, <<Num(11)>>}

\* The script state right after `sock = socket.socket(...)`, `g = gdx.gdx()`.
LoopInit(sc) ==
    /\ script = sc
    /\ lpc = "open"
    /\ dev_open = FALSE
    /\ dev_started = FALSE
    /\ dev_stops = 0
    /\ dev_closes = 0
    /\ sock = "open"
    /\ available_sensors = IF sc = "belt_sensors" THEN <<1, 2, 4, 5>> ELSE <<1, 2>>
    /\ vals = NoReading
    /\ payload = NoPayload
    /\ udp_out = NoDatagram
    /\ n_read = 0
    /\ n_sent = 0
    /\ send_errors = 0
    /\ loop_log = "none"
    /\ uncaught = FALSE
    /\ setup_failed = {}

LoopIdle == LoopInit("enhanced")

sensor_names(n) ==
    CASE n = 1 -> "force" [] n = 2 -> "resp_rate_bpm"
      [] n = 4 -> "steps" [] n = 5 -> "step_rate_spm"

\* enhanced main(), lines 113-114: a missing or None channel reads as 0.
ChannelOrZero(v, i) == IF Len(v) >= i /\ v[i] # PyNone THEN v[i].n ELSE 0

\* enhanced main(), lines 123-139
EnhancedPayload(timestamp, force, resp_rate, d, fh) ==
    [t |-> timestamp, force |-> force, resp_rate_bpm |-> resp_rate,
     breathing_depth |-> d.breathing_depth,
     breathing_regularity |-> d.breathing_regularity,
     breathing_intensity |-> d.breathing_intensity,
     session_duration |-> d.session_duration,
     avg_resp_rate |-> d.avg_resp_rate,
     force_trend |-> d.force_trend,
     resp_rate_trend |-> d.resp_rate_trend,
     force_min |-> IF fh # <<>> THEN SeqMin(fh) ELSE 0,
     force_max |-> IF fh # <<>> THEN SeqMax(fh) ELSE 0,
     force_range |-> d.breathing_depth]

\* python/belt_test.py, lines 60-65: only channels that are present and not None.
BeltSensorsPayload(timestamp, v, sensors) ==
    LET idx == {i \in 1..Len(sensors) : i <= Len(v) /\ v[i] # PyNone}
        keys == {sensor_names(sensors[i]) : i \in idx} \cup {"t"}
    IN  [k \in keys |->
            IF k = "t" THEN Num(timestamp)
            ELSE v[CHOOSE i \in idx : sensor_names(sensors[i]) = k]]

\* belt_test.py, lines 25-29: float(None) raises TypeError.
BeltPayloadRaises(v) == (Len(v) > 0 /\ v[1] = PyNone) \/ (Len(v) > 1 /\ v[2] = PyNone)
BeltPayload(timestamp, v) ==
    [t |-> Num(timestamp),
     force |-> IF Len(v) > 0 THEN v[1] ELSE PyNone,
     resp_rate_bpm |-> IF Len(v) > 1 THEN v[2] ELSE PyNone]

\* An exception leaves the try block: `except Exception` prints it in the two
\* python/ scripts; belt_test.py has no such clause, so it propagates after
\* the finally block.
ExceptionLeavesLoop ==
    /\ lpc' = "finally"
    /\ IF script = "belt"
       THEN uncaught' = TRUE /\ UNCHANGED loop_log
       ELSE loop_log' = "error" /\ UNCHANGED uncaught

\* g.open(connection='usb')
Open ==
    /\ lpc = "open"
    /\ dev_open' = TRUE
    /\ lpc' = "select"
    /\ UNCHANGED <<setup_failed, script, dev_started, dev_stops, dev_closes, sock, available_sensors,
                   vals, payload, udp_out, n_read, n_sent, send_errors, loop_log,
                   uncaught>>
    /\ UNCHANGED <<bridge_vars, analyzer_vars>>

\* Variant: a failed open is swallowed and the script carries on.
OpenFails_Continues ==
    /\ lpc = "open"
    /\ lpc' = "select"
    /\ setup_failed' = setup_failed \cup {"open"}
    /\ UNCHANGED <<script, dev_open, dev_started, dev_stops, dev_closes, sock,
                   available_sensors, vals, payload, udp_out, n_read, n_sent,
                   send_errors, loop_log, uncaught>>
    /\ UNCHANGED <<bridge_vars, analyzer_vars>>

\* g.open raises: nothing catches it before the try block.
OpenFails ==
    /\ lpc = "open"
    /\ lpc' = "crashed"
    /\ uncaught' = TRUE
    /\ setup_failed' = setup_failed \cup {"open"}
    /\ UNCHANGED <<script, dev_open, dev_started, dev_stops, dev_closes, sock,
                   available_sensors, vals, payload, udp_out, n_read, n_sent,
                   send_errors, loop_log>>
    /\ UNCHANGED <<bridge_vars, analyzer_vars>>

\* g.select_sensors(...) succeeds (first attempt or belt_sensors' fallback)
SelectSensors ==
    /\ lpc \in {"select", "select_fallback"}
    /\ lpc' = "start"
    /\ UNCHANGED <<setup_failed, script, dev_open, dev_started, dev_stops, dev_closes, sock,
                   available_sensors, vals, payload, udp_out, n_read, n_sent,
                   send_errors, loop_log, uncaught>>
    /\ UNCHANGED <<bridge_vars, analyzer_vars>>

\* g.select_sensors raises: belt_sensors catches it and retries with [1, 2]
\* (python/belt_test.py lines 30-38); elsewhere, and in the retry, it propagates.
SelectSensorsFails ==
    /\ lpc \in {"select", "select_fallback"}
    /\ setup_failed' = setup_failed \cup {lpc}
    /\ IF script = "belt_sensors" /\ lpc = "select"
       THEN /\ available_sensors' = <<1, 2>>
            /\ loop_log' = "error"
            /\ lpc' = "select_fallback"
            /\ UNCHANGED uncaught
       ELSE /\ lpc' = "crashed"
            /\ uncaught' = TRUE
            /\ UNCHANGED <<available_sensors, loop_log>>
    /\ UNCHANGED <<script, dev_open, dev_started, dev_stops, dev_closes, sock,
                   vals, payload, udp_out, n_read, n_sent, send_errors>>
    /\ UNCHANGED <<bridge_vars, analyzer_vars>>

\* g.start(50)
Start ==
    /\ lpc = "start"
    /\ dev_started' = TRUE
    /\ lpc' = "read"
    /\ UNCHANGED <<setup_failed, script, dev_open, dev_stops, dev_closes, sock, available_sensors,
                   vals, payload, udp_out, n_read, n_sent, send_errors, loop_log,
                   uncaught>>
    /\ UNCHANGED <<bridge_vars, analyzer_vars>>

MaxTicks == 3

\* vals = g.read() returns a reading; the script builds the payload.
ReadSample ==
    /\ lpc = "read"
    /\ n_read < MaxTicks
    /\ \E v \in Readings :
        LET timestamp == n_read + 1 IN
        /\ vals' = v
        /\ n_read' = n_read + 1
        /\ CASE script = "enhanced" ->
                  /\ AddSample(ChannelOrZero(v, 1), ChannelOrZero(v, 2), timestamp)
                  /\ UNCHANGED appended
                  /\ payload' = EnhancedPayload(timestamp, ChannelOrZero(v, 1),
                                                ChannelOrZero(v, 2), derived',
                                                force_history')
                  /\ lpc' = "send"
                  /\ UNCHANGED <<loop_log, uncaught>>
             [] script = "belt_sensors" ->
                  /\ payload' = BeltSensorsPayload(timestamp, v, available_sensors)
                  /\ lpc' = "send"
                  /\ UNCHANGED <<loop_log, uncaught, analyzer_vars>>
             [] script = "belt" ->
                  /\ IF BeltPayloadRaises(v)
                     THEN ExceptionLeavesLoop /\ UNCHANGED payload
                     ELSE /\ payload' = BeltPayload(timestamp, v)
                          /\ lpc' = "send"
                          /\ UNCHANGED <<loop_log, uncaught>>
                  /\ UNCHANGED analyzer_vars
    /\ UNCHANGED <<setup_failed, script, dev_open, dev_started, dev_stops, dev_closes, sock,
                   available_sensors, udp_out, n_sent, send_errors>>
    /\ UNCHANGED bridge_vars

\* vals = g.read() returns None: break
ReadNone ==
    /\ lpc = "read"
    /\ vals' = PyNone
    /\ lpc' = "finally"
    /\ UNCHANGED <<setup_failed, script, dev_open, dev_started, dev_stops, dev_closes, sock,
                   available_sensors, payload, udp_out, n_read, n_sent, send_errors,
                   loop_log, uncaught>>
    /\ UNCHANGED <<bridge_vars, analyzer_vars>>

\* sock.sendto(json.dumps(payload).encode("utf-8"), ...) succeeds
SendOk ==
    /\ lpc = "send"
    /\ udp_out' = json_dumps(payload)
    /\ n_sent' = n_sent + 1
    /\ lpc' = "read"
    /\ UNCHANGED <<setup_failed, script, dev_open, dev_started, dev_stops, dev_closes, sock,
                   available_sensors, vals, payload, n_read, send_errors, loop_log,
                   uncaught>>
    /\ UNCHANGED <<bridge_vars, analyzer_vars>>

\* sock.sendto raises OSError: the exception leaves the while loop.
SendFails ==
    /\ lpc = "send"
    /\ send_errors' = send_errors + 1
    /\ ExceptionLeavesLoop
    /\ UNCHANGED <<setup_failed, script, dev_open, dev_started, dev_stops, dev_closes, sock,
                   available_sensors, vals, payload, udp_out, n_read, n_sent>>
    /\ UNCHANGED <<bridge_vars, analyzer_vars>>

\* Ctrl+C while the loop runs: except KeyboardInterrupt
KeyboardInterruptInLoop ==
    /\ lpc \in {"read", "send"}
    /\ loop_log' = IF script = "belt" THEN loop_log ELSE "stopping"
    /\ lpc' = "finally"
    /\ UNCHANGED <<setup_failed, script, dev_open, dev_started, dev_stops, dev_closes, sock,
                   available_sensors, vals, payload, udp_out, n_read, n_sent,
                   send_errors, uncaught>>
    /\ UNCHANGED <<bridge_vars, analyzer_vars>>

\* finally: g.stop(); g.close(); sock.close()  -- belt_test.py has no sock.close()
Finally ==
    /\ lpc = "finally"
    /\ dev_stops' = dev_stops + 1
    /\ dev_closes' = dev_closes + 1
    /\ sock' = IF script = "belt" THEN sock ELSE "closed"
    /\ lpc' = "exit"
    /\ UNCHANGED <<setup_failed, script, dev_open, dev_started, available_sensors, vals, payload,
                   udp_out, n_read, n_sent, send_errors, loop_log, uncaught>>
    /\ UNCHANGED <<bridge_vars, analyzer_vars>>

InitLoop == BridgeInit /\ AnalyzerIdle /\ \E sc \in Scripts : LoopInit(sc)
NextLoop ==
    \/ Open \/ OpenFails \/ SelectSensors \/ SelectSensorsFails \/ Start
    \/ ReadSample \/ ReadNone \/ SendOk \/ SendFails \/ KeyboardInterruptInLoop
    \/ Finally
SpecLoop == InitLoop /\ [][NextLoop]_vars

(***************************************************************************)
(* SpecWindow: small windows, with the full history of appended samples.   *)
(***************************************************************************)
SmallWindows == {1, 2, 3}
MaxAppends == 5

AppendSample ==
    /\ n_added < MaxAppends
    /\ \E s \in Samples :
          /\ AddSample(s[1], s[2], n_added + 1)
          /\ appended' = Append(appended, <<s[1], s[2], n_added + 1>>)
    /\ UNCHANGED <<bridge_vars, loop_vars>>

InitWindow == BridgeInit /\ LoopIdle /\ \E w \in SmallWindows : AnalyzerInit(w)
NextWindow == AppendSample
SpecWindow == InitWindow /\ [][NextWindow]_vars

(***************************************************************************)
(* SpecAnalyzer: windows below and at the depth threshold, long runs.      *)
(***************************************************************************)
AnalyzerWindows == {3, DepthMinSamples}
MaxSamples == 12

Sample ==
    /\ n_added < MaxSamples
    /\ \E s \in Samples : AddSample(s[1], s[2], n_added + 1)
    /\ UNCHANGED appended
    /\ UNCHANGED <<bridge_vars, loop_vars>>

InitAnalyzer == BridgeInit /\ LoopIdle /\ \E w \in AnalyzerWindows : AnalyzerInit(w)
NextAnalyzer == Sample
SpecAnalyzer == InitAnalyzer /\ [][NextAnalyzer]_vars

(***************************************************************************)
(* SpecBridge: iOSToUnityBridge.start() on the main thread and             *)
(* receive_from_ios() on the daemon thread, interleaved statement by       *)
(* statement where they touch shared state (running, the two sockets).     *)
(***************************************************************************)
cache_vars == <<last_hrv, last_breathing_phase, last_phase_duration>>
conv_vars == <<ios_data, hrv_seen, prev_cache>>
DatagramKind(dg) == IF ~dg.utf8 THEN "not_utf8" ELSE IF ~dg.json THEN "not_json" ELSE "json"

\* Datagrams the iOS side may deliver: bytes that are not UTF-8, text that is
\* not JSON, or the JSON text of a value.
Datagram(u, j, v) == [utf8 |-> u, json |-> j, value |-> v]
Datagrams ==
    {Datagram(FALSE, FALSE, NoMessage), Datagram(TRUE, FALSE, NoMessage)}
    \cup {Datagram(TRUE, TRUE, v) : v \in JsonValues}

\* Lines 64-72 on one datagram: decode, json.loads, convert_to_unity_format.
\* [exc, hrv, phase, duration, data]; exc is "none" if the packet was built.
ProcessDatagram(hrv, phase, duration, dg) ==
    LET same == [hrv |-> hrv, phase |-> phase, duration |-> duration, data |-> NoData]
        r == convert_to_unity_format(hrv, phase, duration, dg.value)
    IN  IF ~dg.utf8 THEN [exc |-> "UnicodeDecodeError"] @@ same
        ELSE IF ~dg.json THEN [exc |-> "JSONDecodeError"] @@ same
        ELSE [exc |-> IF r.raised THEN "ConvertError" ELSE "none",
              hrv |-> r.hrv, phase |-> r.phase, duration |-> r.duration,
              data |-> r.data]

\* Statements of the try block of start() a KeyboardInterrupt can interrupt.
TryBlock == {"create_ios", "bind", "create_unity", "set_running", "spawn", "idle"}
\* The daemon thread runs until the interpreter exits.
ThreadAlive == mpc # "exited"

\* line 30: self.ios_socket = socket.socket(...)
CreateIosSocket ==
    /\ mpc = "create_ios"
    /\ ios_socket' = "open"
    /\ mpc' = "bind"
    /\ UNCHANGED <<unity_socket, running, cache_vars, conv_vars, unity_data, rpc,
                   bridge_log, last_exc, n_recv, n_fwd, ios_closes, unity_closes,
                   closed_ops, rx_kind>>
    /\ UNCHANGED <<analyzer_vars, loop_vars>>

\* line 31: self.ios_socket.bind(...), which raises OSError if the address is
\* in use or not local: except Exception, then finally.
Bind ==
    /\ mpc = "bind"
    /\ \/ mpc' = "create_unity" /\ UNCHANGED bridge_log
       \/ mpc' = "finally" /\ bridge_log' = "error"
    /\ UNCHANGED <<ios_socket, unity_socket, running, cache_vars, conv_vars,
                   unity_data, rpc, last_exc, n_recv, n_fwd, ios_closes,
                   unity_closes, closed_ops, rx_kind>>
    /\ UNCHANGED <<analyzer_vars, loop_vars>>

\* line 34
CreateUnitySocket ==
    /\ mpc = "create_unity"
    /\ unity_socket' = "open"
    /\ mpc' = "set_running"
    /\ UNCHANGED <<ios_socket, running, cache_vars, conv_vars, unity_data, rpc,
                   bridge_log, last_exc, n_recv, n_fwd, ios_closes, unity_closes,
                   closed_ops, rx_kind>>
    /\ UNCHANGED <<analyzer_vars, loop_vars>>

\* line 36
SetRunning ==
    /\ mpc = "set_running"
    /\ running' = TRUE
    /\ mpc' = "spawn"
    /\ UNCHANGED <<ios_socket, unity_socket, cache_vars, conv_vars, unity_data, rpc,
                   bridge_log, last_exc, n_recv, n_fwd, ios_closes, unity_closes,
                   closed_ops, rx_kind>>
    /\ UNCHANGED <<analyzer_vars, loop_vars>>

\* lines 44-46: receive_thread.start()
StartReceiveThread ==
    /\ mpc = "spawn"
    /\ rpc' = "loop"
    /\ mpc' = "idle"
    /\ UNCHANGED <<ios_socket, unity_socket, running, cache_vars, conv_vars,
                   unity_data, bridge_log, last_exc, n_recv, n_fwd, ios_closes,
                   unity_closes, closed_ops, rx_kind>>
    /\ UNCHANGED <<analyzer_vars, loop_vars>>

\* lines 49-50: while self.running: time.sleep(0.1)
IdleLoop ==
    /\ mpc = "idle"
    /\ mpc' = IF running THEN "idle" ELSE "finally"
    /\ UNCHANGED <<ios_socket, unity_socket, running, cache_vars, conv_vars,
                   unity_data, rpc, bridge_log, last_exc, n_recv, n_fwd, ios_closes,
                   unity_closes, closed_ops, rx_kind>>
    /\ UNCHANGED <<analyzer_vars, loop_vars>>

\* lines 52-53: Ctrl+C anywhere in the try block
KeyboardInterrupt ==
    /\ mpc \in TryBlock
    /\ bridge_log' = "stopping"
    /\ mpc' = "finally"
    /\ UNCHANGED <<ios_socket, unity_socket, running, cache_vars, conv_vars,
                   unity_data, rpc, last_exc, n_recv, n_fwd, ios_closes,
                   unity_closes, closed_ops, rx_kind>>
    /\ UNCHANGED <<analyzer_vars, loop_vars>>

\* line 57 -> stop(), line 121: self.running = False
StopClearRunning ==
    /\ mpc = "finally"
    /\ running' = FALSE
    /\ mpc' = "stop_ios"
    /\ UNCHANGED <<ios_socket, unity_socket, cache_vars, conv_vars, unity_data, rpc,
                   bridge_log, last_exc, n_recv, n_fwd, ios_closes, unity_closes,
                   closed_ops, rx_kind>>
    /\ UNCHANGED <<analyzer_vars, loop_vars>>

\* lines 122-123: if self.ios_socket: self.ios_socket.close()
StopCloseIos ==
    /\ mpc = "stop_ios"
    /\ IF ios_socket # "none"
       THEN ios_socket' = "closed" /\ ios_closes' = ios_closes + 1
       ELSE UNCHANGED <<ios_socket, ios_closes>>
    /\ mpc' = "stop_unity"
    /\ UNCHANGED <<unity_socket, running, cache_vars, conv_vars, unity_data, rpc,
                   bridge_log, last_exc, n_recv, n_fwd, unity_closes, closed_ops,
                   rx_kind>>
    /\ UNCHANGED <<analyzer_vars, loop_vars>>

\* lines 124-126: if self.unity_socket: self.unity_socket.close(); print
StopCloseUnity ==
    /\ mpc = "stop_unity"
    /\ IF unity_socket # "none"
       THEN unity_socket' = "closed" /\ unity_closes' = unity_closes + 1
       ELSE UNCHANGED <<unity_socket, unity_closes>>
    /\ bridge_log' = "stopped"
    /\ mpc' = "returned"
    /\ UNCHANGED <<ios_socket, running, cache_vars, conv_vars, unity_data, rpc,
                   last_exc, n_recv, n_fwd, ios_closes, closed_ops, rx_kind>>
    /\ UNCHANGED <<analyzer_vars, loop_vars>>

\* lines 128-130: bridge.start() has returned and the interpreter exits,
\* which ends the daemon thread wherever it is.
InterpreterExit ==
    /\ mpc = "returned"
    /\ mpc' = "exited"
    /\ UNCHANGED <<ios_socket, unity_socket, running, cache_vars, conv_vars,
                   unity_data, rpc, bridge_log, last_exc, n_recv, n_fwd, ios_closes,
                   unity_closes, closed_ops, rx_kind>>
    /\ UNCHANGED <<analyzer_vars, loop_vars>>

\* Variant: the receive loop never looks at the flag.
LoopTest_IgnoresFlag ==
    /\ ThreadAlive
    /\ rpc = "loop"
    /\ rpc' = "recv"
    /\ UNCHANGED <<ios_socket, unity_socket, running, cache_vars, conv_vars,
                   unity_data, mpc, bridge_log, last_exc, n_recv, n_fwd, ios_closes,
                   unity_closes, closed_ops, rx_kind>>
    /\ UNCHANGED <<analyzer_vars, loop_vars>>

\* line 61: while self.running:
LoopTest ==
    /\ ThreadAlive
    /\ rpc = "loop"
    /\ rpc' = IF running THEN "recv" ELSE "finished"
    /\ UNCHANGED <<ios_socket, unity_socket, running, cache_vars, conv_vars,
                   unity_data, mpc, bridge_log, last_exc, n_recv, n_fwd, ios_closes,
                   unity_closes, closed_ops, rx_kind>>
    /\ UNCHANGED <<analyzer_vars, loop_vars>>

\* lines 77-79: except Exception as e: if self.running: print(...)
HandleReceiveError(exc) ==
    /\ last_exc' = exc
    /\ bridge_log' = IF running THEN "receive_error" ELSE bridge_log
    /\ rpc' = "loop"

\* line 63: the recvfrom call is issued; on an open socket it blocks, on a
\* closed one it raises OSError at once.
RecvFrom ==
    /\ ThreadAlive
    /\ rpc = "recv"
    /\ IF ios_socket = "open"
       THEN rpc' = "blocked" /\ UNCHANGED <<last_exc, bridge_log, closed_ops>>
       ELSE HandleReceiveError("OSError") /\ closed_ops' = closed_ops \cup {"recvfrom"}
    /\ UNCHANGED <<ios_socket, unity_socket, running, cache_vars, conv_vars,
                   unity_data, mpc, n_recv, n_fwd, ios_closes, unity_closes, rx_kind>>
    /\ UNCHANGED <<analyzer_vars, loop_vars>>

MaxDatagrams == 2

\* lines 63-72: the blocked recvfrom returns a datagram, which is decoded,
\* parsed and converted; any exception is caught at line 77 and the message is
\* dropped.  A call already blocked when the socket is closed may still return
\* a datagram (the kernel keeps the socket until the call returns).
ReceiveDatagram ==
    /\ ThreadAlive
    /\ rpc = "blocked"
    /\ n_recv < MaxDatagrams
    /\ \E dg \in Datagrams :
        LET r == ProcessDatagram(last_hrv, last_breathing_phase,
                                 last_phase_duration, dg)
        IN  /\ n_recv' = n_recv + 1
            /\ rx_kind' = DatagramKind(dg)
            /\ last_hrv' = r.hrv
            /\ last_breathing_phase' = r.phase
            /\ last_phase_duration' = r.duration
            /\ unity_data' = r.data
            /\ IF r.exc = "none"
               THEN rpc' = "send" /\ UNCHANGED <<last_exc, bridge_log>>
               ELSE HandleReceiveError(r.exc)
    /\ UNCHANGED <<ios_socket, unity_socket, running, conv_vars, mpc, n_fwd,
                   ios_closes, unity_closes, closed_ops>>
    /\ UNCHANGED <<analyzer_vars, loop_vars>>

\* The socket was closed under the blocked recvfrom.  Whether the call then
\* fails or keeps waiting depends on the platform: it may return OSError.
RecvFromAborted ==
    /\ ThreadAlive
    /\ rpc = "blocked"
    /\ ios_socket = "closed"
    /\ HandleReceiveError("OSError")
    /\ UNCHANGED <<ios_socket, unity_socket, running, cache_vars, conv_vars,
                   unity_data, mpc, n_recv, n_fwd, ios_closes, unity_closes,
                   closed_ops, rx_kind>>
    /\ UNCHANGED <<analyzer_vars, loop_vars>>

\* line 75 -> send_to_unity, lines 112-117: json.dumps, sendto; an OSError is
\* caught inside send_to_unity and printed.  sendto on an open socket may
\* succeed or fail; on a closed socket it fails.
SendToUnity ==
    /\ ThreadAlive
    /\ rpc = "send"
    /\ \/ /\ unity_socket = "open"
          /\ n_fwd' = n_fwd + 1
          /\ UNCHANGED <<bridge_log, closed_ops>>
       \/ /\ unity_socket = "open"
          /\ bridge_log' = "send_error"
          /\ UNCHANGED <<n_fwd, closed_ops>>
       \/ /\ unity_socket = "closed"
          /\ bridge_log' = "send_error"
          /\ closed_ops' = closed_ops \cup {"sendto"}
          /\ UNCHANGED n_fwd
    /\ unity_data' = NoData
    /\ rpc' = "loop"
    /\ UNCHANGED <<ios_socket, unity_socket, running, cache_vars, conv_vars, mpc,
                   last_exc, n_recv, ios_closes, unity_closes, rx_kind>>
    /\ UNCHANGED <<analyzer_vars, loop_vars>>

InitBridge == BridgeInit /\ AnalyzerIdle /\ LoopIdle
MainThread ==
    \/ CreateIosSocket \/ Bind \/ CreateUnitySocket \/ SetRunning
    \/ StartReceiveThread \/ IdleLoop \/ KeyboardInterrupt
    \/ StopClearRunning \/ StopCloseIos \/ StopCloseUnity \/ InterpreterExit
ReceiveThread == LoopTest \/ RecvFrom \/ ReceiveDatagram \/ RecvFromAborted \/ SendToUnity
NextBridge == MainThread \/ ReceiveThread
SpecBridge == InitBridge /\ [][NextBridge]_vars

MaxMsgs == 3

(***************************************************************************)
(* SpecCache: a sequence of convert_to_unity_format calls on one bridge.   *)
(***************************************************************************)
Convert(d) ==
    LET r == convert_to_unity_format(last_hrv, last_breathing_phase,
                                     last_phase_duration, d)
    IN  /\ Len(hrv_seen) < MaxMsgs
        /\ last_hrv' = r.hrv
        /\ last_breathing_phase' = r.phase
        /\ last_phase_duration' = r.duration
        /\ ios_data' = d
        /\ unity_data' = r.data
        /\ hrv_seen' = Append(hrv_seen, d.hrv)
        /\ prev_cache' = bridge_cache
        /\ UNCHANGED <<ios_socket, unity_socket, running, thread_vars>>
        /\ UNCHANGED <<analyzer_vars, loop_vars>>

ConvertObject == \E d \in JsonObjects : Convert(d)
ConvertArray == \E d \in JsonArrays : Convert(d)

InitCache == BridgeInit /\ AnalyzerIdle /\ LoopIdle
NextCache == ConvertObject \/ ConvertArray
SpecCache == InitCache /\ [][NextCache]_vars

(***************************************************************************)
(*                    Properties of the bridge cache                       *)
(***************************************************************************)
Called == Len(hrv_seen) > 0
Returned == Called /\ unity_data # NoData
LastHrvField == hrv_seen[Len(hrv_seen)]

\* C1: a convert_to_unity_format call changes last_hrv only if the message
\* has the key hrv with a strictly positive value, and then last_hrv becomes
\* that value; an absent, zero or negative hrv leaves it as it was.  After
\* {hrv:45}, {}, {hrv:0} the cached and the forwarded hrv are 45.
C1_HrvCacheRule ==
    Called =>
        /\ last_hrv = IF LastHrvField.t = "num" /\ LastHrvField.n > 0
                      THEN LastHrvField ELSE prev_cache[1]
        /\ hrv_seen = <<Num(45), Absent, Num(0)>> =>
               last_hrv = Num(45) /\ unity_data.hrv = Num(45)

C1_Witness ==
    /\ hrv_seen = <<Num(45), Absent, Num(0)>>
    /\ ios_data.json = "object"
    /\ last_hrv = Num(45)

\* C2: breathing_phase and phase_duration are overwritten only by a present,
\* non-default value ("" and 0 are the defaults); an omitted or default field
\* leaves the cached value in place; the packet carries the cached value.
C2_DefaultsNeverOverwrite ==
    Called =>
        /\ last_breathing_phase # prev_cache[2] =>
               Truthy(ios_data.breathing_phase)
        /\ last_phase_duration # prev_cache[3] =>
               Truthy(ios_data.phase_duration)
        /\ ~Truthy(ios_data.breathing_phase) => last_breathing_phase = prev_cache[2]
        /\ ~Truthy(ios_data.phase_duration) => last_phase_duration = prev_cache[3]
        /\ Returned => /\ unity_data.breathing_phase = last_breathing_phase
                       /\ unity_data.phase_duration = last_phase_duration

NineKeys == {"heart_rate_bpm", "hrv", "breathing_phase", "phase_duration", "force",
             "resp_rate_bpm", "steps", "step_rate_spm", "t"}
SuppliesNoCacheable(d) ==
    ~Has(d, "hrv") /\ ~Has(d, "breathing_phase") /\ ~Has(d, "phase_duration")

\* C3: every packet built for Unity has exactly the nine fixed keys, with
\* force, resp_rate_bpm, steps and step_rate_spm equal to 0; if the very first
\* message supplies none of hrv, breathing_phase, phase_duration, the packet
\* has hrv = 0, breathing_phase = "" and phase_duration = 0.
C3_NineKeysAndDefaults ==
    Returned =>
        /\ DOMAIN unity_data = NineKeys
        /\ JsonKeys(json_dumps(unity_data)) = NineKeys
        /\ \A k \in {"force", "resp_rate_bpm", "steps", "step_rate_spm"} :
               unity_data[k] = Num(0)
        /\ Len(hrv_seen) = 1 /\ SuppliesNoCacheable(ios_data) =>
               /\ unity_data.hrv = Num(0)
               /\ unity_data.breathing_phase = Str("")
               /\ unity_data.phase_duration = Num(0)

C3_Witness ==
    /\ Returned
    /\ Len(hrv_seen) = 1
    /\ SuppliesNoCacheable(ios_data)
    /\ unity_data.hrv = Num(0)

(***************************************************************************)
(*                  Properties of the BreathingAnalyzer                    *)
(***************************************************************************)
Min2(a, b) == IF a < b THEN a ELSE b
SetMax(S) == CHOOSE x \in S : \A y \in S : y <= x
SetMin(S) == CHOOSE x \in S : \A y \in S : x <= y
WindowRange == SeqMax(force_history) - SeqMin(force_history)
\* The last k of the appended samples, field f (1 force, 2 resp_rate, 3 timestamp).
LastAppended(k, f) == [i \in 1..k |-> appended[Len(appended) - k + i][f]]

\* C4: after N add_sample calls on an analyzer of capacity C the three buffers
\* have length min(N, C), never more than C, and hold the last min(N, C)
\* appended values in insertion order (for N > C: exactly the last C).
C4_WindowHoldsLastC ==
    LET L == Min2(n_added, window_size) IN
    /\ Len(appended) = n_added
    /\ Len(force_history) = L /\ Len(resp_rate_history) = L /\ Len(timestamps) = L
    /\ L <= window_size
    /\ force_history = LastAppended(L, 1)
    /\ resp_rate_history = LastAppended(L, 2)
    /\ timestamps = LastAppended(L, 3)

\* Two samples more than the capacity were appended and the evicted oldest
\* force value differs from the oldest one kept.
C4_Witness ==
    /\ n_added = window_size + 2
    /\ window_size > 1
    /\ Len(force_history) = window_size
    /\ appended[1][1] # force_history[1]
    /\ force_history[window_size] = appended[n_added][1]

\* C9 as stated: breathing_depth is 0 if fewer than 10 samples have been
\* appended, otherwise max - min of the force values now in the window.
C9_Original ==
    n_added > 0 =>
        derived.breathing_depth =
            IF n_added < DepthMinSamples THEN 0 ELSE WindowRange

\* C9 as amended: breathing_depth is 0 if the force window holds fewer than 10
\* samples, otherwise max - min of the force values now in the window (values
\* already evicted do not count).
C9_DepthIsWindowRange ==
    n_added > 0 =>
        derived.breathing_depth =
            IF Len(force_history) < DepthMinSamples THEN 0 ELSE WindowRange

\* An extreme force value has been evicted: the window's range is smaller than
\* the range of everything appended, and the depth is the window's.
C9_Witness ==
    /\ n_added > window_size
    /\ Len(force_history) >= DepthMinSamples
    /\ WindowRange < SetMax(force_seen) - SetMin(force_seen)
    /\ derived.breathing_depth = WindowRange
    /\ derived.breathing_depth > 0

\* The trend C10 expects of a buffer: from its fifth-from-last value a and its
\* last value b alone.
ExpectedTrend(buf) ==
    IF Len(buf) < 5 THEN 0
    ELSE LET a == buf[Len(buf) - 4]
             b == buf[Len(buf)]
         IN  IF b - a > 1 THEN 1 ELSE IF a - b > 1 THEN -1 ELSE 0
Tail5(buf) == SubSeq(buf, Len(buf) - 4, Len(buf))

\* C10: for either buffer the reported trend is 0 with fewer than 5 samples;
\* otherwise +1 if the last value exceeds the fifth-from-last by more than 0.1,
\* -1 if it is below it by more than 0.1, else 0 (exactly 0.1 is stable); no
\* other value matters.  Tails [1,1,1,1,2], [2,1,1,1,1], [1,1,1,1,1] give
\* +1, -1, 0.
C10_TrendRule ==
    n_added > 0 =>
        /\ derived.force_trend = ExpectedTrend(force_history)
        /\ derived.resp_rate_trend = ExpectedTrend(resp_rate_history)
        /\ Len(resp_rate_history) >= 5 =>
              /\ Tail5(resp_rate_history) = <<10, 10, 10, 10, 20>> =>
                     derived.resp_rate_trend = 1
              /\ Tail5(resp_rate_history) = <<20, 10, 10, 10, 10>> =>
                     derived.resp_rate_trend = -1
              /\ Tail5(resp_rate_history) = <<10, 10, 10, 10, 10>> =>
                     derived.resp_rate_trend = 0

\* The resp_rate tail is [1,1,1,1,2] (trend +1) while the force tail rises by
\* exactly 0.1 (trend 0).
C10_Witness ==
    /\ Len(resp_rate_history) >= 5
    /\ Tail5(resp_rate_history) = <<10, 10, 10, 10, 20>>
    /\ derived.resp_rate_trend = 1
    /\ force_history[Len(force_history)] - force_history[Len(force_history) - 4] = 1
    /\ derived.force_trend = 0

(***************************************************************************)
(*                Properties of the bridge's two threads                   *)
(***************************************************************************)
StartReturned == mpc \in {"returned", "exited"}

\* Each socket that was created is closed exactly once when start() returns.
ClosedExactlyOnce ==
    /\ ios_closes <= 1 /\ unity_closes <= 1
    /\ StartReturned =>
          /\ ios_socket # "open" /\ unity_socket # "open"
          /\ ios_socket = "closed" <=> ios_closes = 1
          /\ unity_socket = "closed" <=> unity_closes = 1

\* C5: on every exit path of start() each socket that was created is closed
\* exactly once, none is left open, and no recvfrom or sendto is performed on
\* a socket after it has been closed.
C5_CloseIsTerminal ==
    /\ ClosedExactlyOnce
    /\ closed_ops = {}

MalformedExceptions == {"UnicodeDecodeError", "JSONDecodeError", "ConvertError"}
\* This step received a datagram / dropped the datagram it received.
Received == n_recv' = n_recv + 1
Dropped == Received /\ rpc' # "send"

\* C7: a datagram that is not UTF-8, not JSON, or whose conversion raises is
\* dropped without effect: nothing is forwarded for it, the three cached
\* values and the running flag are unchanged, and the receive thread is back
\* at the head of its loop, where the next datagram is received and forwarded.
C7_MalformedDropped ==
    [][/\ (Received /\ rx_kind' # "json") => Dropped
       /\ Dropped => /\ last_exc' \in MalformedExceptions
                     /\ cache_vars' = cache_vars
                     /\ n_fwd' = n_fwd
                     /\ unity_data' = NoData
                     /\ running' = running
                     /\ rpc' = "loop"
       /\ (Received /\ ~Dropped) => rx_kind' = "json" /\ unity_data' # NoData]_vars

\* A datagram was dropped on an exception, the loop is still running, and the
\* next, well-formed datagram has been converted and is about to be sent.
C7_Witness ==
    /\ n_recv = 2
    /\ last_exc \in MalformedExceptions
    /\ rx_kind = "json"
    /\ rpc = "send"
    /\ running
    /\ unity_socket = "open"
    /\ unity_data # NoData

(***************************************************************************)
(*              Properties of the sampling/forward scripts                 *)
(***************************************************************************)
\* C6: a sendto that raises on tick k does not end the loop: the script goes
\* on to read tick k+1.
C6_SendErrorContinues ==
    [][send_errors' > send_errors => lpc' = "read"]_vars

\* C8: when read() returns None the loop ends without a datagram for that
\* tick, and however the loop is left the device is stopped and closed exactly
\* once and the UDP socket is closed.
C8_LoopExitReleases ==
    /\ (vals = PyNone) => (lpc \in {"finally", "exit"} /\ n_sent <= n_read)
    /\ lpc = "exit" => dev_stops = 1 /\ dev_closes = 1 /\ sock = "closed"

\* The setup calls whose failure ends the run: every one except the first
\* select_sensors of belt_sensors, which that script catches.
FatalSetupFailure ==
    \/ setup_failed \ {"select"} # {}
    \/ setup_failed # {} /\ script # "belt_sensors"

\* C11 as stated: whenever opening the device or enabling the channels has
\* failed, start() is never called on the device and no datagram is sent.
C11_Original ==
    setup_failed # {} => ~dev_started /\ n_sent = 0

\* C11: a failed open, a failed select_sensors in a script without a fallback,
\* or a failed fallback select_sensors propagates out of the script, which
\* never calls start() and never sends a datagram; the first select_sensors
\* failure of belt_sensors is reported and retried once with channels [1, 2].
C11_SetupFailureRule ==
    /\ FatalSetupFailure =>
           /\ lpc = "crashed"
           /\ uncaught
           /\ ~dev_started
           /\ n_sent = 0
           /\ udp_out = NoDatagram
    /\ (script = "belt_sensors" /\ "select" \in setup_failed) =>
           /\ available_sensors = <<1, 2>>
           /\ lpc = "select_fallback" => loop_log = "error"
    /\ lpc = "crashed" => setup_failed # {}

\* belt_sensors caught the first select_sensors failure, the retry with
\* [1, 2] failed too, and the script has ended on the propagating exception.
C11_Witness ==
    /\ script = "belt_sensors"
    /\ setup_failed = {"select", "select_fallback"}
    /\ lpc = "crashed"
    /\ uncaught
    /\ ~dev_started

(***************************************************************************)
(*                 Properties of the two bridge threads                    *)
(***************************************************************************)
\* A step of the main thread (the receive thread's position is untouched).
MainStep == mpc' # mpc

\* C12: the main thread never acts on a socket while the receive thread is
\* blocked on it or about to use it (the inbound socket while the thread is
\* at or inside recvfrom, the outbound socket while it is about to sendto),
\* and the three cache fields change only in steps of the receive thread.
C12_SingleWriterPerSocket ==
    [][/\ (MainStep /\ ios_socket' # ios_socket) => rpc \notin {"recv", "blocked"}
       /\ (MainStep /\ unity_socket' # unity_socket) => rpc # "send"
       /\ cache_vars' # cache_vars => (~MainStep /\ rpc = "blocked")]_vars

\* The receive thread, with the flag already false, only moves forward through
\* the iteration it is in: no step takes it from the loop test to recvfrom.
WindsDown ==
    /\ rpc = "loop" => rpc' \in {"loop", "finished"}
    /\ rpc = "recv" => rpc' \in {"recv", "blocked", "loop"}
    /\ rpc = "blocked" => rpc' \in {"blocked", "send", "loop"}
    /\ rpc = "send" => rpc' \in {"send", "loop"}
    /\ rpc = "finished" => rpc' = "finished"

\* C13: running goes from true to false only in stop() (the step at line 121,
\* never a step of the receive thread), stop() is reached with running true
\* only through the keyboard-interrupt handler, the main thread leaves its
\* idle wait only through that handler, running is never set again once
\* cleared, and with running false the receive thread enters no new
\* iteration: it finishes the one in progress and exits at the loop test.
C13_CooperativeCancellation ==
    [][/\ (running /\ ~running') =>
              (mpc = "finally" /\ mpc' = "stop_ios" /\ rpc' = rpc)
       /\ (running /\ mpc # "finally" /\ mpc' = "finally") =>
              bridge_log' = "stopping"
       /\ (mpc = "idle" /\ mpc' # "idle") =>
              (mpc' = "finally" /\ bridge_log' = "stopping")
       /\ (~running /\ rpc # "unstarted") => (~running' /\ WindsDown)]_vars

\* After Ctrl+C the receive thread, which had forwarded a message, found the
\* flag false at the loop test and left the loop while stop() was still
\* running in the main thread.
C13_Witness ==
    /\ rpc = "finished"
    /\ ~running
    /\ n_fwd >= 1
    /\ mpc \in {"stop_ios", "stop_unity", "returned"}

====
